---------------------------- MODULE Spec2Model ----------------------------
(***************************************************************************)
(* A model of src/src/script.js: the choropleth map of US accidents.       *)
(*                                                                         *)
(* Conventions of the model                                                *)
(*  - A JavaScript string is a sequence of one-character strings, so that  *)
(*    toUpperCase and trim are computed character by character.            *)
(*  - A JavaScript value read from a parsed file is a record               *)
(*    [type, val]: type is "undefined", "string" or "number".              *)
(*  - Numbers: count_accidents is a natural number; a severity is counted  *)
(*    in hundredths (2.5 is 250).  A quotient is an exact fraction <<n, d>>*)
(*    in lowest terms with d > 0; <<0, 0>> stands for NaN.  The model is   *)
(*    exact where the program rounds to IEEE doubles.                      *)
(*  - A Map is the sequence of its entries in insertion order.             *)
(***************************************************************************)
EXTENDS Integers, Sequences, FiniteSets, TLC

(***************************************************************************)
(* Bounds of the model.                                                    *)
(***************************************************************************)
MaxRecords == 2

MaxMetricChanges == 2

(***************************************************************************)
(* Numbers of the program, in the model's units.                           *)
(***************************************************************************)
\* const padding = 0.05, in hundredths
Padding == 5

\* domainMax = domainMin + 0.1, in hundredths
MinSpan == 10

\* stroke-width 0.7 and 1.5, in tenths
StrokeNormal == 7

StrokeHover == 15

\* pageX + 12, pageY + 12
TooltipOffset == 12

\* .duration(900) and .duration(600)
InitialDuration == 900

UpdateDuration == 600

(***************************************************************************)
(* JavaScript strings and values.                                          *)
(***************************************************************************)
Undefined == [type |-> "undefined", val |-> <<>>]

Str(s) == [type |-> "string", val |-> s]

Num(digits) == [type |-> "number", val |-> digits]

\* String.prototype.toUpperCase on one character
UpperChar(c) ==
    CASE c = "a" -> "A"
      [] c = "c" -> "C"
      [] c = "n" -> "N"
      [] c = "t" -> "T"
      [] c = "x" -> "X"
      [] c = "y" -> "Y"
      [] OTHER -> c

toUpperCase(s) == [i \in 1..Len(s) |-> UpperChar(s[i])]

IsSpace(c) == c = " "

RECURSIVE TrimLeft(_)
TrimLeft(s) ==
    IF s # <<>> /\ IsSpace(Head(s)) THEN TrimLeft(Tail(s)) ELSE s

RECURSIVE TrimRight(_)
TrimRight(s) ==
    IF s # <<>> /\ IsSpace(s[Len(s)])
    THEN TrimRight(SubSeq(s, 1, Len(s) - 1))
    ELSE s

\* String.prototype.trim
trim(s) == TrimRight(TrimLeft(s))

\* JavaScript truthiness of a file value: v || other
Truthy(v) ==
    \/ v.type = "string" /\ v.val # <<>>
    \/ v.type = "number" /\ v.val # <<"0">>

\* (v || "") for a value that is undefined or a string
OrEmpty(v) == IF Truthy(v) THEN v.val ELSE <<>>

(***************************************************************************)
(* Exact fractions.                                                        *)
(***************************************************************************)
Abs(n) == IF n < 0 THEN -n ELSE n

RECURSIVE GCD(_, _)
GCD(a, b) == IF b = 0 THEN a ELSE GCD(b, a % b)

NaN == <<0, 0>>

IsNaN(q) == q[2] = 0

\* n / d as JavaScript divides: 0 / 0 is NaN (no other division by zero
\* occurs in the program)
Rat(n, d) ==
    IF d = 0 THEN NaN
    ELSE LET g == GCD(Abs(n), Abs(d))
             s == IF d < 0 THEN -1 ELSE 1
         IN  <<(s * n) \div g, (s * d) \div g>>

RatInt(n) == <<n, 1>>

RatAdd(p, q) == Rat(p[1] * q[2] + q[1] * p[2], p[2] * q[2])

RatSub(p, q) == Rat(p[1] * q[2] - q[1] * p[2], p[2] * q[2])

RatDiv(p, q) == Rat(p[1] * q[2], p[2] * q[1])

\* comparisons with NaN are false, as in JavaScript
RatLE(p, q) == ~IsNaN(p) /\ ~IsNaN(q) /\ p[1] * q[2] <= q[1] * p[2]

(***************************************************************************)
(* Formatters: d3.format(",") and d3.format(".2f").                        *)
(***************************************************************************)
\* d3.format(","): the integer in groups of three digits, highest first
RECURSIVE GroupThousands(_)
GroupThousands(n) ==
    IF n < 1000 THEN <<n>>
    ELSE Append(GroupThousands(n \div 1000), n % 1000)

formatNumber(q) ==
    [kind |-> "grouped", digits |-> GroupThousands(q[1] \div q[2])]

formatCount(q) == formatNumber(q)

\* d3.format(".2f") of a value counted in hundredths: the whole part and two
\* decimals, rounded to the nearest hundredth (a tie rounds up)
formatSeverity(q) ==
    LET h == (2 * q[1] + q[2]) \div (2 * q[2])
    IN  [kind |-> "fixed2", digits |-> <<h \div 100, h % 100>>]

(***************************************************************************)
(* Map: entries in insertion order.                                        *)
(***************************************************************************)
EmptyMap == <<>>

MapKeys(m) == {m[i].key : i \in 1..Len(m)}

MapHas(m, k) == \E i \in 1..Len(m) : m[i].key = k

MapIndex(m, k) == CHOOSE i \in 1..Len(m) : m[i].key = k

\* Map.prototype.get; callers test MapHas for the undefined result
MapGet(m, k) == m[MapIndex(m, k)].value

\* Map.prototype.set: an existing key keeps its place
MapSet(m, k, v) ==
    IF MapHas(m, k)
    THEN [m EXCEPT ![MapIndex(m, k)] = [key |-> k, value |-> v]]
    ELSE Append(m, [key |-> k, value |-> v])

(***************************************************************************)
(* Data loading: the rows of the CSV file and stateMonthParserFn.          *)
(***************************************************************************)
DigitValue(c) ==
    CASE c = "0" -> 0 [] c = "1" -> 1 [] c = "2" -> 2 [] c = "3" -> 3
      [] c = "4" -> 4 [] c = "5" -> 5 [] c = "6" -> 6 [] c = "7" -> 7
      [] c = "8" -> 8 [] c = "9" -> 9

RECURSIVE ParseDigits(_)
ParseDigits(s) ==
    IF s = <<>> THEN 0
    ELSE 10 * ParseDigits(SubSeq(s, 1, Len(s) - 1)) + DigitValue(s[Len(s)])

\* +text for the text of a natural number
ToCount(text) == ParseDigits(text)

\* +text for a decimal "i.ff" or "i.f" or "i", in hundredths
ToHundredths(text) ==
    LET dots == {i \in 1..Len(text) : text[i] = "."}
    IN  IF dots = {} THEN 100 * ParseDigits(text)
        ELSE LET dot  == CHOOSE i \in dots : TRUE
                 frac == SubSeq(text, dot + 1, Len(text))
                 whole == ParseDigits(SubSeq(text, 1, dot - 1))
             IN  IF Len(frac) = 1 THEN 100 * whole + 10 * ParseDigits(frac)
                 ELSE 100 * whole + ParseDigits(SubSeq(frac, 1, 2))

stateMonthParserFn(d) ==
    [state           |-> d.state,
     year_month      |-> d.year_month,
     year            |-> ToCount(d.year),
     count_accidents |-> ToCount(d.count_accidents),
     avg_severity    |-> ToHundredths(d.avg_severity)]

\* d3.csv(path, row): the row function applied to every row of the file
ParseCsv(rows) == [i \in 1..Len(rows) |-> stateMonthParserFn(rows[i])]

(***************************************************************************)
(* buildStateSummary                                                       *)
(***************************************************************************)
\* RecordCode without the call of toUpperCase
RecordCodeAsIs(d) == OrEmpty(d.state)

\* const code = (d.state || "").toUpperCase()
RecordCode(d) == toUpperCase(OrEmpty(d.state))

\* data.forEach((d) => { ... summary.set(code, entry) })
RECURSIVE Accumulate(_, _)
Accumulate(summary, data) ==
    IF data = <<>> THEN summary
    ELSE LET d    == Head(data)
             code == RecordCode(d)
         IN  IF code = <<>> THEN Accumulate(summary, Tail(data))
             ELSE LET entry ==
                          IF MapHas(summary, code) THEN MapGet(summary, code)
                          ELSE [totalCount |-> 0, weightedSeverity |-> 0]
                      updated ==
                          [totalCount |->
                               entry.totalCount + d.count_accidents,
                           weightedSeverity |->
                               entry.weightedSeverity
                                   + d.avg_severity * d.count_accidents]
                  IN  Accumulate(MapSet(summary, code, updated), Tail(data))

\* AvgSeverity without the test of totalCount: 0 / 0 is NaN
AvgSeverityUnguarded(entry) == Rat(entry.weightedSeverity, entry.totalCount)

\* entry.totalCount > 0 ? entry.weightedSeverity / entry.totalCount : 0
AvgSeverity(entry) ==
    IF entry.totalCount > 0
    THEN Rat(entry.weightedSeverity, entry.totalCount)
    ELSE RatInt(0)

\* summary.forEach((entry, code) => { entry.avgSeverity = ...; delete ... })
Finalize(summary) ==
    [i \in 1..Len(summary) |->
        [key   |-> summary[i].key,
         value |->
            [totalCount  |-> summary[i].value.totalCount,
             avgSeverity |-> AvgSeverity(summary[i].value)]]]

buildStateSummary(data) == Finalize(Accumulate(EmptyMap, data))

(***************************************************************************)
(* GeoJSON features: extractStateCode and extractStateName.                *)
(***************************************************************************)
CandidateKeys ==
    <<"STUSPS", "STUSPS10", "state_code", "STATE", "CODE", "code",
      "postal", "postalCode">>

NameKeys == <<"NAME", "NAME10", "name", "state_name">>

PropertyKeys ==
    {CandidateKeys[i] : i \in 1..Len(CandidateKeys)}
        \cup {NameKeys[i] : i \in 1..Len(NameKeys)}

\* feature.properties || {}: a missing key reads as undefined
PropertyOf(feature, k) ==
    IF feature.properties.type = "object" /\ k \in PropertyKeys
    THEN feature.properties.bag[k]
    ELSE Undefined

extractStateCode(feature) ==
    LET candidates ==
            [i \in 1..Len(CandidateKeys) |->
                PropertyOf(feature, CandidateKeys[i])]
        found == {i \in 1..Len(candidates) :
                     /\ candidates[i].type = "string"
                     /\ Len(trim(candidates[i].val)) > 0}
    IN  IF found = {} THEN <<>>
        ELSE trim(candidates[CHOOSE i \in found :
                                 \A j \in found : i <= j].val)

extractStateName(feature) ==
    LET names == [i \in 1..Len(NameKeys) |-> PropertyOf(feature, NameKeys[i])]
        found == {i \in 1..Len(names) : Truthy(names[i])}
        code  == extractStateCode(feature)
    IN  IF found # {}
        THEN names[CHOOSE i \in found : \A j \in found : i <= j].val
        ELSE IF code # <<>> THEN code
        ELSE <<"S", "t", "a", "t", "e">>

(***************************************************************************)
(* Colour scale: updateColorScale, getMetricValue, d3.scaleSequential.     *)
(***************************************************************************)
Metrics == {"count", "severity"}

\* StatsKey without the call of toUpperCase
StatsKeyAsIs(stateCode) == stateCode

\* const stats = stateSummary.get((stateCode || "").toUpperCase())
StatsKey(stateCode) == toUpperCase(stateCode)

\* getMetricValue, as a function of the globals it reads
MetricValue(summary, metric, stateCode) ==
    IF ~MapHas(summary, StatsKey(stateCode)) THEN RatInt(0)
    ELSE IF metric = "count"
         THEN RatInt(MapGet(summary, StatsKey(stateCode)).totalCount)
         ELSE MapGet(summary, StatsKey(stateCode)).avgSeverity

\* d3.extent: the least and greatest of the values that are numbers
Extent(values) ==
    LET nums == {values[i] : i \in 1..Len(values)} \ {NaN}
    IN  IF nums = {} THEN [finite |-> FALSE, min |-> NaN, max |-> NaN]
        ELSE [finite |-> TRUE,
              min |-> CHOOSE q \in nums : \A r \in nums : RatLE(q, r),
              max |-> CHOOSE q \in nums : \A r \in nums : RatLE(r, q)]

\* CountScale without the step from a domain of width 0 to min + 1
CountScaleUnbumped(summary) ==
    LET counts == [i \in 1..Len(summary) |->
                      RatInt(summary[i].value.totalCount)]
        ext == Extent(counts)
        minCount == IF ext.finite THEN ext.min ELSE RatInt(0)
        maxCount == IF ext.finite THEN ext.max ELSE RatInt(1)
    IN  [colorScale  |-> [interp |-> "Reds", d0 |-> minCount,
                          d1 |-> maxCount],
         legendRange |-> [min |-> minCount, max |-> maxCount]]

\* the count branch of updateColorScale
CountScale(summary) ==
    LET counts == [i \in 1..Len(summary) |->
                      RatInt(summary[i].value.totalCount)]
        ext == Extent(counts)
        minCount == IF ext.finite THEN ext.min ELSE RatInt(0)
        maxCount == IF ext.finite THEN ext.max ELSE RatInt(1)
        domainMax == IF maxCount = minCount
                     THEN RatAdd(minCount, RatInt(1)) ELSE maxCount
    IN  [colorScale  |-> [interp |-> "Reds", d0 |-> minCount,
                          d1 |-> domainMax],
         legendRange |-> [min |-> minCount, max |-> maxCount]]

\* SeverityScale with the legend range taken from the padded domain
SeverityScalePaddedLegend(summary) ==
    LET severities ==
            [i \in 1..Len(summary) |->
                IF IsNaN(summary[i].value.avgSeverity) THEN RatInt(0)
                ELSE summary[i].value.avgSeverity]
        ext == Extent(severities)
        minSev == IF ext.finite THEN ext.min ELSE RatInt(0)
        maxSev == IF ext.finite THEN ext.max ELSE RatInt(100)
        domainMin == RatSub(minSev, RatInt(Padding))
        domainMax == RatAdd(maxSev, RatInt(Padding))
    IN  [colorScale  |-> [interp |-> "Blues", d0 |-> domainMin,
                          d1 |-> domainMax],
         legendRange |-> [min |-> domainMin, max |-> domainMax]]

\* the severity branch of updateColorScale
SeverityScale(summary) ==
    LET severities ==
            [i \in 1..Len(summary) |->
                IF IsNaN(summary[i].value.avgSeverity) THEN RatInt(0)
                ELSE summary[i].value.avgSeverity]
        ext == Extent(severities)
        \* the defaults 0 and 1, in hundredths
        minSev == IF ext.finite THEN ext.min ELSE RatInt(0)
        maxSev == IF ext.finite THEN ext.max ELSE RatInt(100)
        domainMin == RatSub(minSev, RatInt(Padding))
        padded == RatAdd(maxSev, RatInt(Padding))
        domainMax == IF RatLE(padded, domainMin)
                     THEN RatAdd(domainMin, RatInt(MinSpan)) ELSE padded
    IN  [colorScale  |-> [interp |-> "Blues", d0 |-> domainMin,
                          d1 |-> domainMax],
         legendRange |-> [min |-> minSev, max |-> maxSev]]

\* updateColorScale: the new colorScale and legendRange
updateColorScale(summary, metric) ==
    IF metric = "count" THEN CountScale(summary) ELSE SeverityScale(summary)

Clamp01(t) ==
    IF RatLE(t, RatInt(0)) THEN RatInt(0)
    ELSE IF RatLE(RatInt(1), t) THEN RatInt(1) ELSE t

\* colorScale(v): d3.scaleSequential maps the domain to [0, 1] (a domain of
\* width 0 maps every value to 1/2), and the interpolator clamps to [0, 1]
ScaleColor(scale, v) ==
    [interp |-> scale.interp,
     t |-> IF scale.d0 = scale.d1 THEN Rat(1, 2)
           ELSE Clamp01(RatDiv(RatSub(v, scale.d0),
                               RatSub(scale.d1, scale.d0)))]

\* (d) => colorScale(getMetricValue(extractStateCode(d)))
FillOf(scale, summary, metric, feature) ==
    ScaleColor(scale, MetricValue(summary, metric, extractStateCode(feature)))

\* a fill between two colours, while a transition runs
Tweening == [interp |-> "tween", t |-> RatInt(0)]

NoScale == [interp |-> "none", d0 |-> RatInt(0), d1 |-> RatInt(0)]

\* updateLegend: the text of the legend elements
updateLegend(metric, range) ==
    [low  |-> IF metric = "count" THEN "Low accidents" ELSE "Lower severity",
     high |-> IF metric = "count" THEN "High accidents"
              ELSE "Higher severity",
     gradient |-> IF metric = "count" THEN "red" ELSE "blue",
     min |-> IF metric = "count" THEN formatCount(range.min)
             ELSE formatSeverity(range.min),
     max |-> IF metric = "count" THEN formatCount(range.max)
             ELSE formatSeverity(range.max)]

NoText == [kind |-> "none", digits |-> <<>>]

NoLegend ==
    [low |-> "", high |-> "", gradient |-> "", min |-> NoText, max |-> NoText]

\* updateMetricDescription
updateMetricDescription(metric) ==
    IF metric = "count"
    THEN "Total number of reported accidents in each state between 2016 and 2023."
    ELSE "Average severity of accidents in each state (1 = minor, 4 = most severe)."

\* the html of the mouseover handler
TooltipHtml(summary, feature) ==
    LET code == extractStateCode(feature)
        name == extractStateName(feature)
    IN  IF MapHas(summary, code)
        THEN [kind |-> "stats", name |-> name, code |-> code,
              accidents |->
                  formatNumber(RatInt(MapGet(summary, code).totalCount)),
              severity |->
                  formatSeverity(MapGet(summary, code).avgSeverity)]
        ELSE [kind |-> "nodata", name |-> name, code |-> <<>>,
              accidents |-> NoText, severity |-> NoText]

NoHtml ==
    [kind |-> "empty", name |-> <<>>, code |-> <<>>, accidents |-> NoText,
     severity |-> NoText]

(***************************************************************************)
(* The inputs: the rows the CSV file may hold and the features the GeoJSON *)
(* file may hold.                                                          *)
(***************************************************************************)
RowStates ==
    {Undefined, Str(<<>>), Str(<<"c", "a">>), Str(<<"C", "A">>),
     Str(<<"T", "X">>)}

CountTexts == {<<"0">>, <<"1">>, <<"2">>}

SeverityTexts == {<<"2">>, <<"2", ".", "5">>}

Row(state, count, severity) ==
    [state           |-> state,
     year_month      |-> Str(<<"2", "0", "1", "6", "-", "0", "1">>),
     year            |-> <<"2", "0", "1", "6">>,
     count_accidents |-> count,
     avg_severity    |-> severity]

Rows ==
    {Row(st, c, sv) : st \in RowStates, c \in CountTexts,
                      sv \in SeverityTexts}

SeqsUpTo(S, n) == UNION {[1..k -> S] : k \in 0..n}

\* every CSV file of at most MaxRecords rows
CsvFiles == SeqsUpTo(Rows, MaxRecords)

\* a few CSV files, for the runs that vary the map instead
CsvMenu ==
    {<<>>,
     <<Row(Str(<<"c", "a">>), <<"2">>, <<"2">>),
       Row(Str(<<"T", "X">>), <<"1">>, <<"4", ".", "0", "0">>),
       Row(Str(<<"C", "A">>), <<"1">>, <<"4", ".", "0", "0">>)>>,
     <<Row(Str(<<"T", "X">>), <<"0">>, <<"2", ".", "5">>),
       Row(Undefined, <<"2">>, <<"2">>)>>}

\* a properties object, from its <<key, value>> pairs
Bag(given) ==
    [type |-> "object",
     bag  |-> [k \in PropertyKeys |->
                  IF \E g \in given : g[1] = k
                  THEN (CHOOSE g \in given : g[1] = k)[2]
                  ELSE Undefined]]

Feature(given) == [type |-> "Feature", properties |-> Bag(given)]

FeatCA ==
    Feature({<<"STUSPS10", Str(<<"C", "A">>)>>,
             <<"NAME10", Str(<<"C", "a", "l", "i", "f">>)>>})

\* a second polygon of the same state
FeatCAIsland ==
    Feature({<<"STUSPS", Str(<<"C", "A">>)>>,
             <<"NAME", Str(<<"I", "s", "l", "e">>)>>})

\* the code in lower case
FeatLowerCA ==
    Feature({<<"code", Str(<<"c", "a">>)>>, <<"name", Str(<<"c", "a", "l">>)>>})

\* a blank first candidate, a number, and a code to trim; no name
FeatTX ==
    Feature({<<"STUSPS", Str(<<" ">>)>>, <<"STATE", Num(<<"4", "8">>)>>,
             <<"postal", Str(<<" ", "T", "X", " ">>)>>})

\* a state the data never has
FeatNY ==
    Feature({<<"STUSPS10", Str(<<"N", "Y">>)>>,
             <<"state_name", Str(<<"N", "Y", "o", "r", "k">>)>>})

\* no properties at all: no code can be resolved
FeatBare ==
    [type |-> "Feature",
     properties |-> [type |-> "null", bag |-> [k \in PropertyKeys |-> Undefined]]]

FeatureCollection(features) ==
    [type |-> "FeatureCollection", features |-> features]

\* one map, for the runs that vary the data instead
GeoFixed == FeatureCollection(<<FeatCA, FeatTX>>)

\* the maps: none, the usual one, two polygons of one state, codes that are
\* in lower case, absent from the data or missing
GeoMenu ==
    {FeatureCollection(<<>>),
     GeoFixed,
     FeatureCollection(<<FeatCA, FeatCAIsland>>),
     FeatureCollection(<<FeatLowerCA, FeatNY, FeatBare>>),
     FeatureCollection(<<FeatTX, FeatBare, FeatCA>>)}

NoGeo == [type |-> "null", features |-> <<>>]

\* event.pageX, event.pageY
PointerPositions == {<<0, 0>>, <<10, 20>>}

(***************************************************************************)
(* The state of the page.                                                  *)
(***************************************************************************)
VARIABLES
    csvFile,            \* what data/us_accidents_state_month.csv holds
    geoFile,            \* what data/us_states.geojson holds
    csvLoad,            \* the d3.csv promise: pending, fulfilled, rejected
    geoLoad,            \* the d3.json promise
    fetches,            \* requests issued for each file
    pipeline,           \* waiting, rendered (then ran), failed (catch ran)
    errorLog,           \* number of console.error calls
    stateMonthData,
    usStates,
    stateSummary,
    selectedState,
    currentMetric,
    legendRange,
    colorScale,
    tooltip,            \* the tooltip div
    metricDescription,  \* text of #metric-description
    legend,             \* text of the legend elements
    polygons,           \* the path.state elements, one per feature
    transitions,        \* the scheduled and running fill transitions
    nextTransitionId,
    controlsAttached,   \* the change listener of #metric-select
    pointerOver,        \* the polygon under the pointer (0: none)
    metricChanges       \* change events so far

vars ==
    <<csvFile, geoFile, csvLoad, geoLoad, fetches, pipeline, errorLog,
      stateMonthData, usStates, stateSummary, selectedState, currentMetric,
      legendRange, colorScale, tooltip, metricDescription, legend, polygons,
      transitions, nextTransitionId, controlsAttached, pointerOver,
      metricChanges>>

inputVars == <<csvFile, geoFile>>

loadVars == <<csvLoad, geoLoad, fetches, pipeline, errorLog>>

dataVars == <<stateMonthData, usStates, stateSummary>>

scaleVars == <<currentMetric, legendRange, colorScale, metricDescription,
               legend, metricChanges>>

NoTooltip ==
    [created |-> FALSE, html |-> NoHtml, left |-> 0, top |-> 0,
     opacity |-> 0]

\* the module's top level: the globals, and Promise.all over the two loads
InitPage ==
    /\ csvLoad = "pending"
    /\ geoLoad = "pending"
    /\ fetches = [csv |-> 1, geo |-> 1]
    /\ pipeline = "waiting"
    /\ errorLog = 0
    /\ stateMonthData = <<>>
    /\ usStates = NoGeo
    /\ stateSummary = EmptyMap
    /\ selectedState = <<"C", "A">>
    /\ currentMetric = "count"
    /\ legendRange = [min |-> RatInt(0), max |-> RatInt(1)]
    /\ colorScale = NoScale
    /\ tooltip = NoTooltip
    /\ metricDescription = ""
    /\ legend = NoLegend
    /\ polygons = <<>>
    /\ transitions = <<>>
    /\ nextTransitionId = 0
    /\ controlsAttached = FALSE
    /\ pointerOver = 0
    /\ metricChanges = 0

Init ==
    /\ csvFile \in CsvMenu
    /\ geoFile \in GeoMenu
    /\ InitPage

InitAgg ==
    /\ csvFile \in CsvFiles
    /\ geoFile = GeoFixed
    /\ InitPage

(***************************************************************************)
(* Data loading: the two promises and Promise.all(...).then(...).catch(...) *)
(***************************************************************************)
\* d3.csv(stateMonthPath, stateMonthParserFn) is fulfilled
CsvFulfil ==
    /\ csvLoad = "pending"
    /\ csvLoad' = "fulfilled"
    /\ UNCHANGED <<inputVars, geoLoad, fetches, pipeline, errorLog, dataVars,
                   selectedState, scaleVars, tooltip, polygons, transitions,
                   nextTransitionId, controlsAttached, pointerOver>>

\* the CSV file cannot be fetched
CsvReject ==
    /\ csvLoad = "pending"
    /\ csvLoad' = "rejected"
    /\ UNCHANGED <<inputVars, geoLoad, fetches, pipeline, errorLog, dataVars,
                   selectedState, scaleVars, tooltip, polygons, transitions,
                   nextTransitionId, controlsAttached, pointerOver>>

\* d3.json(statesGeoPath) is fulfilled
GeoFulfil ==
    /\ geoLoad = "pending"
    /\ geoLoad' = "fulfilled"
    /\ UNCHANGED <<inputVars, csvLoad, fetches, pipeline, errorLog, dataVars,
                   selectedState, scaleVars, tooltip, polygons, transitions,
                   nextTransitionId, controlsAttached, pointerOver>>

\* the GeoJSON file cannot be fetched or parsed
GeoReject ==
    /\ geoLoad = "pending"
    /\ geoLoad' = "rejected"
    /\ UNCHANGED <<inputVars, csvLoad, fetches, pipeline, errorLog, dataVars,
                   selectedState, scaleVars, tooltip, polygons, transitions,
                   nextTransitionId, controlsAttached, pointerOver>>

\* getMetricValue(stateCode), reading the globals
getMetricValue(stateCode) ==
    MetricValue(stateSummary, currentMetric, stateCode)

\* AllFulfilled as Promise.any would have it: one fulfilled promise is enough
AnyFulfilled == csvLoad = "fulfilled" \/ geoLoad = "fulfilled"

\* Promise.all is fulfilled when every promise is
AllFulfilled == csvLoad = "fulfilled" /\ geoLoad = "fulfilled"

\* Promise.all is rejected as soon as one promise is
AllRejected == csvLoad = "rejected" \/ geoLoad = "rejected"

\* if (!stateSummary.has(selectedState)) selectedState = firstKey || "CA"
DefaultSelection(summary, selected) ==
    IF MapHas(summary, selected) THEN selected
    ELSE IF summary # EmptyMap /\ summary[1].key # <<>> THEN summary[1].key
    ELSE <<"C", "A">>

\* the path elements initMap joins to the features, with the default
\* selection highlighted
InitialPolygons(scale, summary, metric, features, selected) ==
    [i \in 1..Len(features) |->
        [fill        |-> FillOf(scale, summary, metric, features[i]),
         strokeWidth |-> StrokeNormal,
         selected    |-> extractStateCode(features[i]) = selected]]

\* selection.transition().duration(ms).attr("fill", value): one schedule on
\* every element of the selection (none when the selection is empty); the
\* value function is evaluated at once, for every element
Schedule(scheduled, id, duration, target) ==
    IF target = <<>> THEN scheduled
    ELSE Append(scheduled,
                [id |-> id, phase |-> "scheduled", duration |-> duration,
                 target |-> target])

\* the fill of every polygon under a scale: the value function
\* (d) => colorScale(getMetricValue(extractStateCode(d))) over the features
Fills(scale, summary, metric, features) ==
    [i \in 1..Len(features) |-> FillOf(scale, summary, metric, features[i])]

\* .then(([stateMonth, statesGeo]) => { ... initMap(); attachControls(); })
ThenCallback ==
    /\ AllFulfilled
    /\ pipeline = "waiting"
    /\ LET data    == ParseCsv(csvFile)
           summary == buildStateSummary(data)
           sel     == DefaultSelection(summary, selectedState)
           sc      == updateColorScale(summary, currentMetric)
           paths   == InitialPolygons(sc.colorScale, summary, currentMetric,
                                      geoFile.features, sel)
       IN  /\ stateMonthData' = data
           /\ usStates' = geoFile
           /\ stateSummary' = summary
           /\ selectedState' = sel
           /\ metricDescription' = updateMetricDescription(currentMetric)
           /\ tooltip' = [NoTooltip EXCEPT !.created = TRUE]
           /\ colorScale' = sc.colorScale
           /\ legendRange' = sc.legendRange
           /\ legend' = updateLegend(currentMetric, sc.legendRange)
           /\ polygons' = paths
           /\ transitions' =
                  Schedule(transitions, nextTransitionId, InitialDuration,
                           Fills(sc.colorScale, summary, currentMetric,
                                 geoFile.features))
    /\ nextTransitionId' = nextTransitionId + 1
    /\ controlsAttached' = TRUE
    /\ pipeline' = "rendered"
    /\ UNCHANGED <<inputVars, csvLoad, geoLoad, fetches, errorLog,
                   currentMetric, pointerOver, metricChanges>>

\* .catch((err) => { console.error("Error loading data:", err); })
CatchCallback ==
    /\ AllRejected
    /\ pipeline = "waiting"
    /\ errorLog' = errorLog + 1
    /\ pipeline' = "failed"
    /\ UNCHANGED <<inputVars, csvLoad, geoLoad, fetches, dataVars,
                   selectedState, scaleVars, tooltip, polygons, transitions,
                   nextTransitionId, controlsAttached, pointerOver>>

(***************************************************************************)
(* The metric selector: attachControls and updateMapColors.                *)
(***************************************************************************)
MetricChange(m) ==
    /\ controlsAttached
    /\ metricChanges < MaxMetricChanges
    /\ \E sc \in {updateColorScale(stateSummary, m)} :
           /\ currentMetric' = m
           /\ metricDescription' = updateMetricDescription(m)
           /\ colorScale' = sc.colorScale
           /\ legendRange' = sc.legendRange
           /\ legend' = updateLegend(m, sc.legendRange)
           /\ transitions' =
                  Schedule(transitions, nextTransitionId, UpdateDuration,
                           Fills(sc.colorScale, stateSummary, m,
                                 usStates.features))
    /\ nextTransitionId' = nextTransitionId + 1
    /\ metricChanges' = metricChanges + 1
    /\ UNCHANGED <<inputVars, loadVars, dataVars, selectedState, tooltip,
                   polygons, controlsAttached, pointerOver>>

(***************************************************************************)
(* Fill transitions (d3-transition).  The schedules of one transition sit  *)
(* on every polygon, are created together and share delay and duration, so *)
(* they start in one animation frame and end in one: the model steps them  *)
(* together.                                                               *)
(***************************************************************************)
\* Survivors when a starting transition leaves the earlier ones alone
SurvivorsAll(scheduled, id) == scheduled

\* the schedules a starting transition leaves in place: it interrupts the
\* running one and cancels those created before it
Survivors(scheduled, id) ==
    SelectSeq(scheduled,
              LAMBDA o : o.id = id \/ (o.phase = "scheduled" /\ o.id > id))

\* the first frame of a transition: a fill that differs from its target
\* starts to move towards it
TransitionStart(id) ==
    /\ \E k \in 1..Len(transitions) :
          transitions[k].id = id /\ transitions[k].phase = "scheduled"
    /\ LET kept == Survivors(transitions, id)
           target ==
               kept[CHOOSE k \in 1..Len(kept) : kept[k].id = id].target
       IN  /\ transitions' =
                  [k \in 1..Len(kept) |->
                      IF kept[k].id = id
                      THEN [kept[k] EXCEPT !.phase = "running"]
                      ELSE kept[k]]
           /\ polygons' =
                  [i \in 1..Len(polygons) |->
                      IF polygons[i].fill = target[i] THEN polygons[i]
                      ELSE [polygons[i] EXCEPT !.fill = Tweening]]
    /\ UNCHANGED <<inputVars, loadVars, dataVars, selectedState, scaleVars,
                   tooltip, nextTransitionId, controlsAttached, pointerOver>>

\* the last frame of a running transition: every fill is its target
TransitionEnd(id) ==
    /\ \E k \in 1..Len(transitions) :
          transitions[k].id = id /\ transitions[k].phase = "running"
    /\ LET k == CHOOSE j \in 1..Len(transitions) : transitions[j].id = id
       IN  polygons' =
               [i \in 1..Len(polygons) |->
                   [polygons[i] EXCEPT !.fill = transitions[k].target[i]]]
    /\ transitions' = SelectSeq(transitions, LAMBDA o : o.id # id)
    /\ UNCHANGED <<inputVars, loadVars, dataVars, selectedState, scaleVars,
                   tooltip, nextTransitionId, controlsAttached, pointerOver>>

(***************************************************************************)
(* Pointer events on a polygon.                                            *)
(***************************************************************************)
Rendered == pipeline = "rendered"

MouseOver(p, pos) ==
    /\ Rendered
    /\ p \in 1..Len(polygons)
    /\ pointerOver = 0
    /\ pointerOver' = p
    /\ polygons' = [polygons EXCEPT ![p].strokeWidth = StrokeHover]
    /\ tooltip' =
           [tooltip EXCEPT
               !.html = TooltipHtml(stateSummary, usStates.features[p]),
               !.left = pos[1] + TooltipOffset,
               !.top = pos[2] + TooltipOffset,
               !.opacity = 1]
    /\ UNCHANGED <<inputVars, loadVars, dataVars, selectedState, scaleVars,
                   transitions, nextTransitionId, controlsAttached>>

MouseMove(p, pos) ==
    /\ Rendered
    /\ p \in 1..Len(polygons)
    /\ pointerOver = p
    /\ tooltip' = [tooltip EXCEPT !.left = pos[1] + TooltipOffset,
                                  !.top = pos[2] + TooltipOffset]
    /\ UNCHANGED <<inputVars, loadVars, dataVars, selectedState, scaleVars,
                   polygons, transitions, nextTransitionId, controlsAttached,
                   pointerOver>>

MouseOut(p) ==
    /\ Rendered
    /\ p \in 1..Len(polygons)
    /\ pointerOver = p
    /\ pointerOver' = 0
    /\ polygons' = [polygons EXCEPT ![p].strokeWidth = StrokeNormal]
    /\ tooltip' = [tooltip EXCEPT !.opacity = 0]
    /\ UNCHANGED <<inputVars, loadVars, dataVars, selectedState, scaleVars,
                   transitions, nextTransitionId, controlsAttached>>

\* Click without the early return on an unresolved code
ClickUnguarded(p) ==
    /\ Rendered
    /\ p \in 1..Len(polygons)
    /\ pointerOver = p
    /\ selectedState' = extractStateCode(usStates.features[p])
    /\ polygons' =
           [i \in 1..Len(polygons) |->
               [polygons[i] EXCEPT !.selected = (i = p)]]
    /\ UNCHANGED <<inputVars, loadVars, dataVars, scaleVars, tooltip,
                   transitions, nextTransitionId, controlsAttached,
                   pointerOver>>

\* the click handler
Click(p) ==
    /\ Rendered
    /\ p \in 1..Len(polygons)
    /\ pointerOver = p
    /\ LET code == extractStateCode(usStates.features[p])
       IN  IF code = <<>>
           THEN UNCHANGED <<selectedState, polygons>>
           ELSE /\ selectedState' = code
                /\ polygons' =
                       [i \in 1..Len(polygons) |->
                           [polygons[i] EXCEPT !.selected = (i = p)]]
    /\ UNCHANGED <<inputVars, loadVars, dataVars, scaleVars, tooltip,
                   transitions, nextTransitionId, controlsAttached,
                   pointerOver>>

(***************************************************************************)
(* Specifications.                                                         *)
(***************************************************************************)
TransitionIds == 0..MaxMetricChanges

PolygonIds == UNION {1..Len(g.features) : g \in GeoMenu}

Next ==
    \/ CsvFulfil
    \/ CsvReject
    \/ GeoFulfil
    \/ GeoReject
    \/ ThenCallback
    \/ CatchCallback
    \/ \E m \in Metrics : MetricChange(m)
    \/ \E id \in TransitionIds : TransitionStart(id)
    \/ \E id \in TransitionIds : TransitionEnd(id)
    \/ \E p \in PolygonIds, pos \in PointerPositions : MouseOver(p, pos)
    \/ \E p \in PolygonIds, pos \in PointerPositions : MouseMove(p, pos)
    \/ \E p \in PolygonIds : MouseOut(p)
    \/ \E p \in PolygonIds : Click(p)

\* the page, over a few data files and a few maps
Spec == Init /\ [][Next]_vars

\* the page when both loads succeed and nobody touches the map, over every
\* small data file
NextAgg ==
    \/ CsvFulfil
    \/ GeoFulfil
    \/ ThenCallback
    \/ \E m \in Metrics : MetricChange(m)

SpecAgg == InitAgg /\ [][NextAgg]_vars

\* the catch callback is a microtask and the transitions are timers: the
\* browser runs both
FairSpec ==
    /\ Spec
    /\ WF_vars(CatchCallback)
    /\ WF_vars(\E id \in TransitionIds : TransitionStart(id))
    /\ WF_vars(\E id \in TransitionIds : TransitionEnd(id))

(***************************************************************************)
(* Properties of the aggregation (SpecAgg).                                *)
(***************************************************************************)
LowerCaseChars == {"a", "c", "n", "t", "x", "y"}

\* the loaded records whose state code, in upper case, is K
RecordsOf(K) ==
    SelectSeq(stateMonthData,
              LAMBDA d : toUpperCase(OrEmpty(d.state)) = K)

RECURSIVE SumCounts(_)
SumCounts(records) ==
    IF records = <<>> THEN 0
    ELSE Head(records).count_accidents + SumCounts(Tail(records))

RECURSIVE SumWeighted(_)
SumWeighted(records) ==
    IF records = <<>> THEN 0
    ELSE Head(records).avg_severity * Head(records).count_accidents
             + SumWeighted(Tail(records))

\* C1: for every state code K of the summary, totalCount is the sum of
\* count_accidents over the records whose upper-cased state is K, and
\* avgSeverity is the sum of avg_severity x count_accidents over those
\* records divided by totalCount, or 0 when totalCount is 0.
C1_AggregationCorrect ==
    Rendered =>
        \A i \in 1..Len(stateSummary) :
            LET recs  == RecordsOf(stateSummary[i].key)
                entry == stateSummary[i].value
            IN  /\ entry.totalCount = SumCounts(recs)
                /\ entry.totalCount = 0 => entry.avgSeverity = <<0, 1>>
                /\ entry.totalCount > 0 =>
                       /\ entry.avgSeverity[2] > 0
                       /\ entry.avgSeverity[1] * SumCounts(recs)
                              = SumWeighted(recs) * entry.avgSeverity[2]

\* two records of one state, in different case, with different weights and
\* severities: total 3, mean (200 * 1 + 250 * 2) / 3
C1_Witness ==
    /\ Rendered
    /\ Len(stateMonthData) = 2
    /\ stateMonthData[1].state # stateMonthData[2].state
    /\ \E i \in 1..Len(stateSummary) :
          /\ stateSummary[i].value.totalCount = 3
          /\ stateSummary[i].value.avgSeverity = <<700, 3>>

\* C2: the keys of the summary are exactly the upper-cased state codes of
\* the records whose state code is not empty; every key is upper case and
\* not empty; "ca" and "CA" share one entry; a record with an empty or
\* missing state code adds no entry.
C2_KeySet ==
    Rendered =>
        /\ MapKeys(stateSummary) =
               {toUpperCase(OrEmpty(stateMonthData[j].state)) :
                    j \in 1..Len(stateMonthData)} \ {<<>>}
        /\ \A i \in 1..Len(stateSummary) :
              /\ stateSummary[i].key # <<>>
              /\ \A n \in 1..Len(stateSummary[i].key) :
                    stateSummary[i].key[n] \notin LowerCaseChars
        /\ \A i, j \in 1..Len(stateSummary) :
              stateSummary[i].key = stateSummary[j].key => i = j

\* a "ca" record and a "CA" record make the one entry "CA"
C2_Witness ==
    /\ Rendered
    /\ Len(stateMonthData) = 2
    /\ stateMonthData[1].state = Str(<<"c", "a">>)
    /\ stateMonthData[2].state = Str(<<"C", "A">>)
    /\ MapKeys(stateSummary) = {<<"C", "A">>}
    /\ Len(stateSummary) = 1

(***************************************************************************)
(* Properties of the colour scale and the metric lookup (SpecAgg).         *)
(***************************************************************************)
LookupCodes ==
    {<<>>, <<"c", "a">>, <<"C", "A">>, <<"C", "a">>, <<"t", "x">>,
     <<"T", "X">>, <<"N", "Y">>, <<"n", "y">>}

\* the value of the active metric in a summary entry
MetricOfEntry(entry) ==
    IF currentMetric = "count" THEN <<entry.totalCount, 1>>
    ELSE entry.avgSeverity

\* C6: getMetricValue is case-insensitive: it returns the active metric of
\* the summary entry of the upper-cased code (totalCount for count,
\* avgSeverity for severity), and 0 when the upper-cased code is not in the
\* summary.
C6_LookupCaseInsensitive ==
    \A c \in LookupCodes :
        /\ \A i \in 1..Len(stateSummary) :
              stateSummary[i].key = toUpperCase(c) =>
                  getMetricValue(c) = MetricOfEntry(stateSummary[i].value)
        /\ (\A i \in 1..Len(stateSummary) :
               stateSummary[i].key # toUpperCase(c)) =>
                  getMetricValue(c) = <<0, 1>>

\* TX is summarised and NY is not; the metric is severity: "tx" gives the
\* severity of TX and "NY" gives 0
C6_Witness ==
    /\ Rendered
    /\ currentMetric = "severity"
    /\ MapHas(stateSummary, <<"T", "X">>)
    /\ ~MapHas(stateSummary, <<"N", "Y">>)
    /\ getMetricValue(<<"t", "x">>) = <<250, 1>>
    /\ getMetricValue(<<"N", "Y">>) = <<0, 1>>

\* the values of the active metric over the summarised states
Observed == {MetricOfEntry(stateSummary[i].value) : i \in 1..Len(stateSummary)}

ObservedMin == CHOOSE q \in Observed : \A r \in Observed : RatLE(q, r)

ObservedMax == CHOOSE q \in Observed : \A r \in Observed : RatLE(r, q)

\* the legend shows the observed extent of the active metric, and the
\* severity domain is that extent padded by 0.05 on each side
LegendShowsObserved ==
    /\ legendRange = [min |-> ObservedMin, max |-> ObservedMax]
    /\ legend.min = (IF currentMetric = "count" THEN formatCount(ObservedMin)
                     ELSE formatSeverity(ObservedMin))
    /\ legend.max = (IF currentMetric = "count" THEN formatCount(ObservedMax)
                     ELSE formatSeverity(ObservedMax))
    /\ currentMetric = "severity" =>
           /\ colorScale.d0 = RatSub(ObservedMin, <<5, 1>>)
           /\ colorScale.d1 = RatAdd(ObservedMax, <<5, 1>>)

AllSeverities250 ==
    /\ currentMetric = "severity"
    /\ Observed = {<<250, 1>>}

\* C7, as claimed: after initialisation and after every metric change the
\* legend range is the unpadded observed [min, max] of the active metric;
\* the severity domain is [min - 0.05, max + 0.05], so that min = max = 2.5
\* gives the domain [2.4, 2.6] while the legend shows [2.50, 2.50].
C7_AsClaimed ==
    (Rendered /\ stateSummary # EmptyMap) =>
        /\ LegendShowsObserved
        /\ AllSeverities250 =>
               /\ colorScale.d0 = <<240, 1>>
               /\ colorScale.d1 = <<260, 1>>
               /\ legend.min.digits = <<2, 50>>
               /\ legend.max.digits = <<2, 50>>

\* C7, amended: as claimed, but min = max = 2.5 gives the domain
\* [2.45, 2.55]; and with no summarised state the legend range is the
\* default, 0 to 1.
C7_LegendUnpadded ==
    Rendered =>
        /\ stateSummary # EmptyMap =>
               /\ LegendShowsObserved
               /\ AllSeverities250 =>
                      /\ colorScale.d0 = <<245, 1>>
                      /\ colorScale.d1 = <<255, 1>>
                      /\ legend.min.digits = <<2, 50>>
                      /\ legend.max.digits = <<2, 50>>
        /\ stateSummary = EmptyMap =>
               legendRange =
                   [min |-> <<0, 1>>,
                    max |-> IF currentMetric = "count" THEN <<1, 1>>
                            ELSE <<100, 1>>]

\* after a metric change to severity, every summarised state has severity
\* 2.5
C7_Witness ==
    /\ Rendered
    /\ metricChanges > 0
    /\ stateSummary # EmptyMap
    /\ AllSeverities250
    /\ legend.min.digits = <<2, 50>>

\* C8: the colour scale is never degenerate: for every summary and either
\* metric the upper bound of the domain is strictly greater than the lower
\* bound; for count with min = max the upper bound is min + 1, and with no
\* summarised state the count domain is [0, 1].
C8_ScaleNotDegenerate ==
    Rendered =>
        /\ colorScale.d0[2] > 0
        /\ colorScale.d1[2] > 0
        /\ colorScale.d0[1] * colorScale.d1[2]
               < colorScale.d1[1] * colorScale.d0[2]
        /\ (currentMetric = "count" /\ stateSummary # EmptyMap
                /\ ObservedMin = ObservedMax) =>
               /\ colorScale.d0 = ObservedMin
               /\ colorScale.d1 = <<ObservedMin[1] + 1, 1>>
        /\ (currentMetric = "count" /\ stateSummary = EmptyMap) =>
               /\ colorScale.d0 = <<0, 1>>
               /\ colorScale.d1 = <<1, 1>>

\* two states with the same totalCount, under the count metric
C8_Witness ==
    /\ Rendered
    /\ currentMetric = "count"
    /\ Len(stateSummary) = 2
    /\ stateSummary[1].value.totalCount = stateSummary[2].value.totalCount
    /\ colorScale.d1 = <<stateSummary[1].value.totalCount + 1, 1>>

(***************************************************************************)
(* Properties of the selection (Spec).                                     *)
(***************************************************************************)
\* the polygons that carry the class "selected"
SelectedSet == {i \in 1..Len(polygons) : polygons[i].selected}

CodeOf(p) == extractStateCode(usStates.features[p])

ResolvableClick(p) == Click(p) /\ CodeOf(p) # <<>>

\* C3: once the map is initialised at most one polygon is selected, whatever
\* the clicks, hovers and metric changes; and right after a click on a
\* polygon with a resolvable code exactly the clicked polygon is selected
\* and selectedState is its code.
C3_SoleSelection ==
    [][/\ Rendered' => Cardinality(SelectedSet') <= 1
       /\ \A p \in PolygonIds :
             ResolvableClick(p) =>
                 /\ SelectedSet' = {p}
                 /\ selectedState' = CodeOf(p)]_vars

\* C4: selection changes only through a click on a polygon with a
\* resolvable code: a metric change, a pointer-enter, pointer-move or
\* pointer-leave and a click on a polygon without a resolvable code leave
\* selectedState and the set of selected polygons unchanged.
C4_SelectionFrame ==
    [][/\ (\/ \E m \in Metrics : MetricChange(m)
           \/ \E p \in PolygonIds, pos \in PointerPositions :
                 MouseOver(p, pos) \/ MouseMove(p, pos)
           \/ \E p \in PolygonIds : MouseOut(p)
           \/ \E p \in PolygonIds : Click(p) /\ CodeOf(p) = <<>>)
              => UNCHANGED <<selectedState, SelectedSet>>
       /\ (Rendered /\ <<selectedState, SelectedSet>>'
                           # <<selectedState, SelectedSet>>)
              => \E p \in PolygonIds : ResolvableClick(p)]_vars

\* the metric has changed, a polygon is selected, and the pointer is over a
\* polygon whose code cannot be resolved, its tooltip shown
C4_Witness ==
    /\ Rendered
    /\ metricChanges > 0
    /\ SelectedSet # {}
    /\ pointerOver # 0
    /\ CodeOf(pointerOver) = <<>>
    /\ tooltip.opacity = 1

(***************************************************************************)
(* Properties of the load pipeline (FairSpec).                             *)
(***************************************************************************)
\* something of the then callback has happened: aggregation, the map, the
\* tooltip or the controls
AnythingRendered ==
    \/ stateMonthData # <<>>
    \/ stateSummary # EmptyMap
    \/ usStates # NoGeo
    \/ colorScale # NoScale
    \/ polygons # <<>>
    \/ transitions # <<>>
    \/ tooltip.created
    \/ controlsAttached
    \/ pipeline = "rendered"

LoadJoin ==
    /\ AnythingRendered => (csvLoad = "fulfilled" /\ geoLoad = "fulfilled")
    /\ (csvLoad = "rejected" \/ geoLoad = "rejected") => ~AnythingRendered
    /\ fetches = [csv |-> 1, geo |-> 1]
    /\ errorLog <= 1
    /\ errorLog = 1 <=> pipeline = "failed"
    /\ errorLog = 1 => (csvLoad = "rejected" \/ geoLoad = "rejected")

\* C5: the two loads run concurrently and are joined: in every completion
\* order aggregation, rendering and control attachment happen only after
\* both loads are fulfilled; if a load fails the map is never rendered, no
\* load is retried, and the failure is reported exactly once.
C5_LoadJoin ==
    /\ []LoadJoin
    /\ (csvLoad = "rejected" \/ geoLoad = "rejected") ~> (errorLog = 1)

\* the CSV load was fulfilled, the GeoJSON load failed, and the failure is
\* reported
C5_Witness ==
    /\ csvLoad = "fulfilled"
    /\ geoLoad = "rejected"
    /\ pipeline = "failed"
    /\ errorLog = 1
    /\ polygons = <<>>

(***************************************************************************)
(* Properties of the fill transitions (FairSpec).                          *)
(***************************************************************************)
\* every fill is the colour the scale of the active metric gives the
\* polygon's value
FillsCurrent ==
    \A i \in 1..Len(polygons) :
        polygons[i].fill =
            ScaleColor(colorScale, getMetricValue(CodeOf(i)))

\* a running transition is the oldest one left: those created before it
\* are gone, those created after it wait
Superseded ==
    \A k, j \in 1..Len(transitions) :
        (transitions[k].phase = "running" /\ j # k) =>
            /\ transitions[j].phase = "scheduled"
            /\ transitions[j].id > transitions[k].id

\* C9: a later transition supersedes an earlier one: a transition that
\* starts ends the running one and those created before it, and once the
\* metric changes no more every fill is, from some time on, the colour the
\* scale of the active metric gives the polygon's value.
C9_LatestTransitionWins ==
    /\ []Superseded
    /\ <>[](Rendered => FillsCurrent)

\* the metric changed to severity while the initial transition was running:
\* the fills are on their way to the reds of the count scale, and the
\* transition to the blues waits
C9_Witness ==
    /\ Rendered
    /\ currentMetric = "severity"
    /\ Len(transitions) = 2
    /\ transitions[1].id = 0 /\ transitions[1].phase = "running"
    /\ transitions[2].id = 1 /\ transitions[2].phase = "scheduled"
    /\ transitions[1].target # transitions[2].target
    /\ ~FillsCurrent

(***************************************************************************)
(* Tooltip and fill (Spec).                                                *)
(***************************************************************************)
\* C10: tooltip and fill agree on whether a polygon has data: the tooltip
\* of a hovered polygon says "No data" exactly when the fill lookup of the
\* polygon's code finds no summary entry, and otherwise shows the count and
\* severity of the entry that drives the fill.
C10_TooltipAgreesWithFill ==
    \A p \in 1..Len(polygons) :
        (pointerOver = p /\ tooltip.opacity = 1) =>
            LET key == toUpperCase(CodeOf(p))
            IN  /\ tooltip.html.kind = "nodata" <=> ~MapHas(stateSummary, key)
                /\ MapHas(stateSummary, key) =>
                       /\ tooltip.html.accidents =
                              formatNumber(
                                  <<MapGet(stateSummary, key).totalCount, 1>>)
                       /\ tooltip.html.severity =
                              formatSeverity(
                                  MapGet(stateSummary, key).avgSeverity)

==========================================================================
